---------------------------- MODULE Spec2Model ----------------------------
(***************************************************************************)
(* A model of the rcc lexer / preprocessor (src/src/lexer.rs).             *)
(*                                                                         *)
(* Characters are one-character strings and texts (sources, token          *)
(* spellings, file names) are sequences of characters.  An Option value is *)
(* a sequence of length at most one: None is << >>, Some(x) is <<x>>.      *)
(*                                                                         *)
(* Every method of Lexer is an operator on a machine record                *)
(*   m = [lx, mm, fs, st, log, n, depth]                                   *)
(* where lx is the Lexer struct, mm the process-wide MacroMap, fs the file *)
(* system, st the fate of the process ("ok" while it runs) and log, n and  *)
(* depth are history values that only record what happened.  A method     *)
(* returns r = [m, v]: the machine after the call and the value returned.  *)
(* Once st is not "ok" the process has ended and every method leaves the   *)
(* machine alone.                                                          *)
(*                                                                         *)
(* A method that uses the result of a call more than once is written as a  *)
(* chain of operators, each taking the result of the previous call as a    *)
(* parameter: peek_next_char_is, peek_next_char_is_2, ... are the          *)
(* successive statements of one method.                                    *)
(***************************************************************************)
EXTENDS Naturals, Sequences, FiniteSets, TLC

(***************************************************************************)
(* Bounds of the model.                                                    *)
(***************************************************************************)
\* longest text drawn over the scanner's characters
MaxLen == 4
\* longest text drawn over the comment characters
MaxComment == 7
\* most fragments in a preprocessing source
MaxFrags == 3
\* most calls of get() by the consumer
MaxGets == 8
\* most tokens drained from one included file before the drain is
\* reported as not terminating
DrainFuel == 8

None == << >>
Some(x) == <<x>>
R(m, v) == [m |-> m, v |-> v]
Ok(m) == m.st = "ok"

(***************************************************************************)
(* Character classes used by the match arms of the scanner.                *)
(***************************************************************************)
Lower == {"a","b","c","d","e","f","g","h","i","j","k","l","m",
          "n","o","p","q","r","s","t","u","v","w","x","y","z"}
Upper == {"A","B","C","D","E","F","G","H","I","J","K","L","M",
          "N","O","P","Q","R","S","T","U","V","W","X","Y","Z"}
Digit == {"0","1","2","3","4","5","6","7","8","9"}
IdentStart == Lower \cup Upper \cup {"_"}
IdentCont == IdentStart \cup Digit
NumCont == Digit \cup {"."}
AssignOps == {"+","-","*","/","%","=","^","!"}
DoubleOps == {"<",">","&","|"}

(***************************************************************************)
(* Token and Lexer.  g_file, g_pos and g_mac are history fields: the file  *)
(* and the offset of the token's first character, and whether the token is *)
(* a clone made by expand() out of a replacement list.  g_len is the       *)
(* length of the Lexer's input.                                            *)
(***************************************************************************)
Token_new(kind, val, line) ==
    [kind |-> kind, space |-> FALSE, val |-> val, line |-> line,
     g_file |-> << >>, g_pos |-> 0, g_mac |-> FALSE]

Lexer_new(filename, input) ==
    [cur_line |-> 1, filename |-> filename, peek |-> input,
     peek_buf |-> << >>, buf |-> << >>, g_len |-> Len(input)]

\* offset (1-based) of the next character peek_next() will hand out
CurPos(lx) == lx.g_len - Len(lx.peek_buf) - Len(lx.peek) + 1
Stamp(tok, m0) ==
    [tok EXCEPT !.g_file = m0.lx.filename, !.g_pos = CurPos(m0.lx)]

\* Token::new(kind, &text, self.cur_line) at the end of a scanner that
\* started in machine m0 and collected r = [m, v = text]
Emit(kind, r, m0) == R(r.m, Stamp(Token_new(kind, r.v, r.m.lx.cur_line), m0))

\* error::error_exit: print a line-tagged message and end the process
error_exit(m, msg) == IF Ok(m) THEN [m EXCEPT !.st = msg] ELSE m
\* Option::unwrap / Result::unwrap / assert_eq! failing
panic(m) == IF Ok(m) THEN [m EXCEPT !.st = "panic"] ELSE m

(***************************************************************************)
(* Character cursor.                                                       *)
(***************************************************************************)
peek_get(m) ==
    IF m.lx.peek_buf # << >> THEN Some(Head(m.lx.peek_buf))
    ELSE IF m.lx.peek # << >> THEN Some(Head(m.lx.peek))
    ELSE None

peek_next(m) ==
    IF ~Ok(m) THEN R(m, "")
    ELSE IF m.lx.peek_buf # << >>
    THEN R([m EXCEPT !.lx.peek_buf = Tail(@)], Head(m.lx.peek_buf))
    ELSE IF m.lx.peek # << >>
    THEN R([m EXCEPT !.lx.peek = Tail(@)], Head(m.lx.peek))
    ELSE R(panic(m), "")

\* a pushback that puts the character before the ones already queued
peek_unget_front(m, ch) == [m EXCEPT !.lx.peek_buf = <<ch>> \o @]
peek_unget(m, ch) == [m EXCEPT !.lx.peek_buf = Append(@, ch)]

\* self.peek_unget(c); self.peek_unget(nextc); nextc == ch
peek_next_char_is_3(c, nextc, ch) ==
    IF ~Ok(nextc.m) THEN R(nextc.m, FALSE)
    ELSE R(peek_unget(peek_unget(nextc.m, c.v), nextc.v), nextc.v = ch)
\* let nextc = self.peek_next();
peek_next_char_is_2(c, ch) == peek_next_char_is_3(c, peek_next(c.m), ch)
\* let c = self.peek_next();
peek_next_char_is(m, ch) == peek_next_char_is_2(peek_next(m), ch)

peek_char_is(m, ch) ==
    IF ~Ok(m) THEN R(m, FALSE)
    ELSE IF peek_get(m) = None THEN R(error_exit(m, "exit: expected"), FALSE)
    ELSE R(m, peek_get(m)[1] = ch)

(***************************************************************************)
(* Token scanner.                                                          *)
(***************************************************************************)
RECURSIVE take_while(_, _, _)
\* loop { match peek_get() { Some(c) in class => push(c), _ => break }; peek_next() }
take_while(m, class, s) ==
    IF peek_get(m) # None /\ peek_get(m)[1] \in class
    THEN take_while(peek_next(m).m, class, Append(s, peek_get(m)[1]))
    ELSE R(m, s)

\* s.push(self.peek_next()) on n = the result of peek_next()
push(n, s) == R(n.m, Append(s, n.v))

RECURSIVE take_until(_, _, _), take_until_2(_, _, _), take_until_3(_, _, _)
\* while !peek_char_is(ch) { s.push(peek_next()) }
take_until(m, ch, s) == take_until_2(peek_char_is(m, ch), ch, s)
take_until_2(p, ch, s) ==
    IF ~Ok(p.m) \/ p.v THEN R(p.m, s)
    ELSE take_until_3(peek_next(p.m), ch, s)
take_until_3(n, ch, s) == take_until(n.m, ch, Append(s, n.v))

\* if peek_char_is(ch) { sym.push(peek_next()) }, on s = [m, v = sym]
take_if_2(p, sym) ==
    IF Ok(p.m) /\ p.v THEN push(peek_next(p.m), sym) ELSE R(p.m, sym)
take_if(s, ch) == take_if_2(peek_char_is(s.m, ch), s.v)

read_identifier(m) == Emit("Identifier", take_while(m, IdentCont, << >>), m)

number_kind(num) ==
    IF \E i \in 1..Len(num) : num[i] = "." THEN "FloatNumber" ELSE "IntNumber"
read_number_literal_2(r, m0) == Emit(number_kind(r.v), r, m0)
read_number_literal(m) == read_number_literal_2(take_while(m, NumCont, << >>), m)

read_newline_2(n, m0) ==
    Emit("Newline", R([n.m EXCEPT !.lx.cur_line = @ + 1], << >>), m0)
read_newline(m) == read_newline_2(peek_next(m), m)

\* sym.push(self.peek_next()); sym.push(self.peek_next());
read_symbol_5(x, c) == push(peek_next(x.m), <<c.v, x.v>>)
\* ... && self.peek_next_char_is('.')
read_symbol_4(b, c) ==
    IF Ok(b.m) /\ b.v THEN read_symbol_5(peek_next(b.m), c)
    ELSE R(b.m, <<c.v>>)
\* if self.peek_char_is('.') && ...
read_symbol_3(a, c) ==
    IF Ok(a.m) /\ a.v THEN read_symbol_4(peek_next_char_is(a.m, "."), c)
    ELSE R(a.m, <<c.v>>)
\* match c { ... }
read_symbol_2(c) ==
    IF c.v \in AssignOps THEN take_if(R(c.m, <<c.v>>), "=")
    ELSE IF c.v \in DoubleOps
    THEN take_if(take_if(R(c.m, <<c.v>>), c.v), "=")
    ELSE IF c.v = "." THEN read_symbol_3(peek_char_is(c.m, "."), c)
    ELSE R(c.m, <<c.v>>)
read_symbol(m) == Emit("Symbol", read_symbol_2(peek_next(m)), m)

\* the closing self.peek_next() of a literal whose text r.v was collected
read_literal_2(r) == R(peek_next(r.m).m, r.v)
read_string_literal(m) ==
    Emit("String", read_literal_2(take_until(peek_next(m).m, "\"", << >>)), m)
read_char_literal(m) ==
    Emit("Char", read_literal_2(take_until(peek_next(m).m, "'", << >>)), m)

RECURSIVE skip_block_comment(_), skip_block_comment_2(_), skip_block_comment_3(_)
\* while !(peek_char_is('*') && peek_next_char_is('/')) { peek_next(); }
skip_block_comment(m) == skip_block_comment_2(peek_char_is(m, "*"))
skip_block_comment_2(a) ==
    IF ~Ok(a.m) THEN a.m
    ELSE IF ~a.v THEN skip_block_comment(peek_next(a.m).m)
    ELSE skip_block_comment_3(peek_next_char_is(a.m, "/"))
skip_block_comment_3(b) ==
    IF ~Ok(b.m) \/ b.v THEN b.m
    ELSE skip_block_comment(peek_next(b.m).m)

\* self.peek_next(); self.peek_next();
peek_next_twice(m) == peek_next(peek_next(m).m).m

\* a scanner's Token as the Option do_read_token() returns
Scanned(r) == IF Ok(r.m) THEN R(r.m, Some(r.v)) ELSE R(r.m, None)

\* fn f(tok): t.space = true, under Option::and_then
set_space(t) ==
    IF t.v = None THEN t ELSE R(t.m, Some([t.v[1] EXCEPT !.space = TRUE]))

RECURSIVE do_read_token(_), do_read_token_slash(_), do_read_token_slash_2(_),
          read_token(_), read_token_2(_)
\* a read_token() that hands a Newline token on
read_token_2_unfiltered(t) == t
do_read_token(m) ==
    IF ~Ok(m) THEN R(m, None)
    ELSE IF m.lx.buf # << >>
    THEN R([m EXCEPT !.lx.buf = Tail(@)], Some(Head(m.lx.buf)))
    ELSE IF peek_get(m) = None THEN R(m, None)
    ELSE CASE peek_get(m)[1] \in IdentStart -> Scanned(read_identifier(m))
           [] peek_get(m)[1] \in {" ", "\t"} ->
                set_space(read_token(peek_next(m).m))
           [] peek_get(m)[1] \in Digit -> Scanned(read_number_literal(m))
           [] peek_get(m)[1] = "\"" -> Scanned(read_string_literal(m))
           [] peek_get(m)[1] = "'" -> Scanned(read_char_literal(m))
           [] peek_get(m)[1] = "\n" -> Scanned(read_newline(m))
           [] peek_get(m)[1] = "\\" -> read_token(peek_next(m).m)
           [] peek_get(m)[1] = "/" ->
                do_read_token_slash(peek_next_char_is(m, "*"))
           [] OTHER -> Scanned(read_symbol(m))

\* '/' => if self.peek_next_char_is('*') { ... block comment ... }
do_read_token_slash(star) ==
    IF ~Ok(star.m) THEN R(star.m, None)
    ELSE IF star.v
    THEN do_read_token(
             peek_next_twice(skip_block_comment(peek_next_twice(star.m))))
    ELSE do_read_token_slash_2(peek_next_char_is(star.m, "/"))

\* else if self.peek_next_char_is('/') { ... line comment ... } else symbol
do_read_token_slash_2(slash) ==
    IF ~Ok(slash.m) THEN R(slash.m, None)
    ELSE IF slash.v
    THEN do_read_token(take_until(peek_next_twice(slash.m), "\n", << >>).m)
    ELSE Scanned(read_symbol(slash.m))

read_token(m) == read_token_2(do_read_token(m))
read_token_2(t) ==
    IF t.v # None /\ t.v[1].kind = "Newline" THEN read_token(t.m) ELSE t

(***************************************************************************)
(* Token buffer.                                                           *)
(***************************************************************************)
skip_2(next, s) ==
    IF ~Ok(next.m) THEN R(next.m, FALSE)
    ELSE IF next.v = None THEN R(panic(next.m), FALSE)
    ELSE IF /\ next.v[1].val = s
            /\ next.v[1].kind # "String"
            /\ next.v[1].kind # "Char"
    THEN R(next.m, TRUE)
    ELSE R([next.m EXCEPT !.lx.buf = Append(@, next.v[1])], FALSE)
skip(m, s) == skip_2(read_token(m), s)

unget(m, t) == [m EXCEPT !.lx.buf = Append(@, t)]

(***************************************************************************)
(* History: what the preprocessor did, in order.  Each entry names the     *)
(* event ("define", "expand", "include", "probe"), the macro or file name, *)
(* the token that triggered an expansion or named the macro defined, the   *)
(* token list involved (for a probe: the Option cpp_try_include returned), *)
(* the number n of tokens the consumer had received when it happened and   *)
(* the include depth of the Lexer it happened in.                          *)
(***************************************************************************)
NoTok == Token_new("None", << >>, 0)
Event(ev, name, tok, body, m) ==
    [ev |-> ev, name |-> name, tok |-> tok, body |-> body,
     n |-> m.n, depth |-> m.depth]
Logged(m, e) == [m EXCEPT !.log = Append(@, e)]

(***************************************************************************)
(* Preprocessor.                                                           *)
(***************************************************************************)
RECURSIVE unget_rev(_, _, _)
\* for tt in t.iter().rev() { self.unget(tt.clone()); }  from index i down
unget_rev(m, t, i) ==
    IF i = 0 THEN m
    ELSE unget_rev(unget(m, [t[i] EXCEPT !.g_mac = TRUE]), t, i - 1)

\* MacroMap.lock().unwrap().get(name)
MacroMap_get(mm, name) == IF name \in DOMAIN mm THEN Some(mm[name]) ELSE None
\* MacroMap.lock().unwrap().insert(name, Macro::Object(body))
MacroMap_insert(mm, name, body) ==
    [x \in DOMAIN mm \cup {name} |-> IF x = name THEN body ELSE mm[x]]

\* match MacroMap.get(tok.val) { Some(Object(t)) => ..., None => Some(tok) }
expand_2(m, tok, a) ==
    IF a = None THEN R(m, Some(tok))
    ELSE read_token(Logged(unget_rev(m, a[1], Len(a[1])),
                           Event("expand", tok.val, tok, a[1], m)))
expand(m, token) ==
    IF token = None THEN R(m, None)
    ELSE expand_2(m, token[1], MacroMap_get(m.mm, token[1].val))

Directive_include == <<"i", "n", "c", "l", "u", "d", "e">>
Directive_define == <<"d", "e", "f", "i", "n", "e">>
header_paths == << <<".", "/", "i", "n", "c", "l", "u", "d", "e", "/">>,
                   <<"/", "i", "n", "c", "l", "u", "d", "e", "/">>,
                   <<"/", "u", "s", "r", "/", "i", "n", "c", "l", "u", "d", "e", "/">>,
                   <<"/", "u", "s", "r", "/", "i", "n", "c", "l", "u", "d", "e", "/", "l", "i", "n", "u", "x", "/">>,
                   <<"/", "u", "s", "r", "/", "i", "n", "c", "l", "u", "d", "e", "/", "x", "8", "6", "_", "6", "4", "-", "l", "i", "n", "u", "x", "-", "g", "n", "u", "/">>,
                   << >> >>

\* the header paths, by index, under which the name exists
existing(m, filename) ==
    {i \in 1..Len(header_paths) : (header_paths[i] \o filename) \in DOMAIN m.fs}
\* a search that takes the last prefix under which the name exists
cpp_try_include_last(m, filename) ==
    IF existing(m, filename) = {} THEN None
    ELSE Some(header_paths[CHOOSE i \in existing(m, filename) :
                              \A j \in existing(m, filename) : i >= j]
              \o filename)
cpp_try_include(m, filename) ==
    IF existing(m, filename) = {} THEN None
    ELSE Some(header_paths[CHOOSE i \in existing(m, filename) :
                              \A j \in existing(m, filename) : i <= j]
              \o filename)

RECURSIVE define_body(_, _), define_body_2(_, _)
\* loop { let c = do_read_token().unwrap(); if Newline { break } body.push(c) }
define_body(m, body) == define_body_2(do_read_token(m), body)
define_body_2(c, body) ==
    IF ~Ok(c.m) THEN R(c.m, body)
    ELSE IF c.v = None THEN R(panic(c.m), body)
    ELSE IF c.v[1].kind = "Newline" THEN R(c.m, body)
    ELSE define_body(c.m, Append(body, c.v[1]))

\* MacroMap.lock().unwrap().insert(mcro.val, Macro::Object(body));
read_cpp_define_4(b, mcro) ==
    IF ~Ok(b.m) THEN b.m
    ELSE Logged([b.m EXCEPT !.mm = MacroMap_insert(@, mcro.val, b.v)],
                Event("define", mcro.val, mcro, b.v, b.m))
\* if self.skip("(") { error_exit("unsupported") }
read_cpp_define_3(paren, mcro) ==
    IF ~Ok(paren.m) THEN paren.m
    ELSE IF paren.v THEN error_exit(paren.m, "exit: unsupported")
    ELSE read_cpp_define_4(define_body(paren.m, << >>), mcro)
\* assert_eq!(mcro.kind, TokenKind::Identifier);
read_cpp_define_2(mcro) ==
    IF ~Ok(mcro.m) THEN mcro.m
    ELSE IF mcro.v = None THEN panic(mcro.m)
    ELSE IF mcro.v[1].kind # "Identifier" THEN panic(mcro.m)
    ELSE read_cpp_define_3(skip(mcro.m, <<"(">>), mcro.v[1])
\* let mcro = self.do_read_token().unwrap();
read_cpp_define(m) == read_cpp_define_2(do_read_token(m))

\* a table owned by each Lexer: what the nested Lexer defined is lost
SharedMacroMap_copied(outer, nested) == outer.mm
\* MacroMap is one static table: what the nested Lexer left in it is what
\* the including Lexer sees when the drain is over
SharedMacroMap(outer, nested) == nested.mm

RECURSIVE get(_), get_2(_), get_3(_), read_cpp_directive(_),
          read_cpp_directive_2(_), read_cpp_include(_), read_cpp_include_2(_),
          read_cpp_include_3(_), read_cpp_include_4(_, _),
          read_cpp_include_5(_, _, _), read_cpp_include_6(_, _, _),
          drain(_, _, _), drain_2(_, _, _)

\* while let Some(tok) = lexer.get() { self.buf.push_back(tok); }
drain(nm, toks, fuel) == drain_2(get(nm), toks, fuel)
drain_2(g, toks, fuel) ==
    IF ~Ok(g.m) \/ g.v = None THEN R(g.m, toks)
    ELSE IF fuel = 0 THEN R([g.m EXCEPT !.st = "hang"], toks)
    ELSE drain(g.m, Append(toks, g.v[1]), fuel - 1)

\* the drained tokens are in self.buf; println!("end of: ...")
read_cpp_include_6(m, filename, d) ==
    IF ~Ok(d.m)
    THEN [m EXCEPT !.mm = SharedMacroMap(m, d.m), !.st = d.m.st, !.log = d.m.log]
    ELSE Logged([m EXCEPT !.lx.buf = @ \o d.v,
                          !.mm = SharedMacroMap(m, d.m),
                          !.log = d.m.log],
                Event("include", filename, NoTok, d.v, m))
\* open, read_to_string, Lexer::new(filename.clone(), &body), drain
read_cpp_include_5(m, filename, real_filename) ==
    IF ~Ok(m) THEN m
    ELSE IF real_filename = None THEN error_exit(m, "exit: not found")
    ELSE IF m.fs[real_filename[1]].dir THEN panic(m)
    ELSE read_cpp_include_6(m, filename,
             drain([m EXCEPT !.lx = Lexer_new(filename,
                                              m.fs[real_filename[1]].body),
                             !.depth = @ + 1],
                   << >>, DrainFuel))
\* let real_filename = match self.cpp_try_include(&filename) { ... }
read_cpp_include_4(m, filename) ==
    IF ~Ok(m) THEN m
    ELSE read_cpp_include_5(
             Logged(m, Event("probe", filename, NoTok,
                             cpp_try_include(m, filename), m)),
             filename, cpp_try_include(m, filename))
\* self.peek_next();  (the closing '>')
read_cpp_include_3(u) == read_cpp_include_4(peek_next(u.m).m, u.v)
\* if self.skip("<") { while !self.peek_char_is('>') { filename.push(..) } }
read_cpp_include_2(lt) ==
    IF lt.v THEN read_cpp_include_3(take_until(lt.m, ">", << >>))
    ELSE read_cpp_include_4(lt.m, << >>)
read_cpp_include(m) == read_cpp_include_2(skip(m, <<"<">>))

read_cpp_directive(m) == read_cpp_directive_2(do_read_token(m))
read_cpp_directive_2(t) ==
    IF ~Ok(t.m) THEN t.m
    ELSE IF t.v = None THEN panic(t.m)
    ELSE IF t.v[1].val = Directive_include THEN read_cpp_include(t.m)
    ELSE IF t.v[1].val = Directive_define THEN read_cpp_define(t.m)
    ELSE t.m

get(m) == get_2(read_token(m))
get_2(t) ==
    IF t.v = None THEN t
    ELSE IF t.v[1].val = <<"#">> THEN get_3(get(read_cpp_directive(t.m)))
    ELSE expand(t.m, t.v)
\* self.expand(tok) on the token the recursive self.get() returned
get_3(tok) == expand(tok.m, tok.v)

(***************************************************************************)
(* The program: main() builds one Lexer over the input file and calls      *)
(* get() until it returns None.                                            *)
(***************************************************************************)
VARIABLES
    lexer,      \* the Lexer main() owns
    MacroMap,   \* the static macro table
    fs,         \* the file system: path -> [dir, body]
    status,     \* "ok", "eof" once get() returned None, else how the process ended
    out,        \* the tokens get() has returned to main(), in order
    log,        \* history of defines, expansions and includes
    source      \* the text main() read from the input file

vars == <<lexer, MacroMap, fs, status, out, log, source>>

MainFile == <<"a", ".", "c">>

Machine ==
    [lx |-> lexer, mm |-> MacroMap, fs |-> fs, st |-> status, log |-> log,
     n |-> Len(out), depth |-> 0]

\* match lexer.get() { Some(t) => println!(...), None => break }
Returned(r) ==
    /\ lexer' = r.m.lx
    /\ MacroMap' = r.m.mm
    /\ log' = r.m.log
    /\ status' = IF ~Ok(r.m) THEN r.m.st
                 ELSE IF r.v = None THEN "eof" ELSE "ok"
    /\ out' = IF Ok(r.m) /\ r.v # None THEN Append(out, r.v[1]) ELSE out

\* one turn of main()'s loop
Get ==
    /\ status = "ok"
    /\ Len(out) < MaxGets
    /\ Returned(get(Machine))
    /\ UNCHANGED <<fs, source>>

Start(text, files) ==
    /\ source = text
    /\ fs = files
    /\ lexer = Lexer_new(MainFile, text)
    /\ MacroMap = [x \in {} |-> << >>]
    /\ status = "ok"
    /\ out = << >>
    /\ log = << >>

(***************************************************************************)
(* Inputs.  Six families of input files are explored: texts over the       *)
(* characters the scanner classifies, texts over the literal characters,   *)
(* texts over the comment characters, preprocessing sources made of        *)
(* directive and identifier fragments against every file system of Files,  *)
(* sources that include f against every placement of f under the searched  *)
(* prefixes, and sources made of the directive forms of DirectiveFrags.    *)
(***************************************************************************)
Texts(alphabet, n) == UNION {[1..k -> alphabet] : k \in 0..n}

ScanChars == {"a", "1", "+", "<", "=", ".", " ", "\n", "\\"}
LitChars == {"a", "\"", "'", "\\", "\n"}
CommentChars == {"a", "/", "*", "\n"}

Frag_defAB == <<"#", "d", "e", "f", "i", "n", "e", " ", "A", " ", "B", "\n">>
Frag_defB12 == <<"#", "d", "e", "f", "i", "n", "e", " ", "B", " ", "1", " ", "2", "\n">>
Frag_include == <<"#", "i", "n", "c", "l", "u", "d", "e", " ", "<", "f", ">", "\n">>
Frag_include_g == <<"#", "i", "n", "c", "l", "u", "d", "e", " ", "<", "g", "\n", ">", "\n">>
Frag_A == <<"A", " ">>
Frag_B == <<"B", "\n">>
Frag_M == <<"M", " ">>
Frag_cont == <<"\\", "\n", "x", " ">>
Frags == {Frag_defAB, Frag_defB12, Frag_include, Frag_include_g, Frag_A, Frag_B,
          Frag_M, Frag_cont}

RECURSIVE Concats(_)
Concats(k) ==
    IF k = 0 THEN {<< >>}
    ELSE Concats(k - 1) \cup {t \o f : t \in Concats(k - 1), f \in Frags}

File_f == <<"f">>
\* a header whose name has a newline in it
File_g == <<"g", "\n">>
Body_XY == <<"X", " ", "Y">>
Body_MdefM == <<"M", " ", "Y", "\n", "#", "d", "e", "f", "i", "n", "e", " ", "M", " ", "1", "\n">>
Body_defA == <<"#", "d", "e", "f", "i", "n", "e", " ", "A", " ", "3", " ", "4", "\n", "A", "\n">>
Bodies == {Body_XY, Body_MdefM, Body_defA}

NoFiles == [p \in {} |-> [dir |-> FALSE, body |-> << >>]]
OneFile(path, body) == [p \in {path} |-> [dir |-> FALSE, body |-> body]]
TwoFiles == [p \in {File_f, File_g} |-> [dir |-> FALSE, body |-> Body_XY]]
Files == {OneFile(File_f, b) : b \in Bodies} \cup {TwoFiles}

RECURSIVE ConcatsOf(_, _)
ConcatsOf(frags, k) ==
    IF k = 0 THEN {<< >>}
    ELSE ConcatsOf(frags, k - 1)
         \cup {t \o f : t \in ConcatsOf(frags, k - 1), f \in frags}

\* header f present under any set of the searched prefixes
SearchFrags == {Frag_include, Frag_A}
\* the copy of f under the i-th prefix holds the one identifier P<i>
SearchBody(path) ==
    <<"P", <<"1", "2", "3", "4", "5", "6">>[
               CHOOSE i \in 1..Len(header_paths) : path = header_paths[i] \o File_f]>>
SearchFiles ==
    {[p \in {header_paths[i] \o File_f : i \in S}
         |-> [dir |-> FALSE, body |-> SearchBody(p)]] : S \in SUBSET (1..Len(header_paths))}

Frag_include_q == <<"#", "i", "n", "c", "l", "u", "d", "e", " ", "\"", "f", "\"", "\n">>
Frag_defA_empty == <<"#", "d", "e", "f", "i", "n", "e", " ", "A", "\n">>
Frag_defA_ws == <<"#", "d", "e", "f", "i", "n", "e", " ", "A", " ", "1", " ", "\n">>
Frag_defA_paren == <<"#", "d", "e", "f", "i", "n", "e", " ", "A", " ", "(", "1", ")", "\n">>
Frag_defA_fn == <<"#", "d", "e", "f", "i", "n", "e", " ", "A", "(", "x", ")", " ", "1", "\n">>
Frag_defM_self == <<"#", "d", "e", "f", "i", "n", "e", " ", "M", " ", "M", " ", "1", "\n">>
Frag_strB == <<"\"", "B", "\"", " ">>
DirectiveFrags == {Frag_include_q, Frag_defA_empty, Frag_defA_ws, Frag_defA_paren,
                   Frag_defA_fn, Frag_defM_self, Frag_defB12, Frag_strB, Frag_A, Frag_B,
                   Frag_M}
\* a file system that has the directory /usr/include/ and nothing else
DirFiles == [p \in {header_paths[3]} |-> [dir |-> TRUE, body |-> << >>]]

Init ==
    \/ \E t \in Texts(ScanChars, MaxLen) : Start(t, NoFiles)
    \/ \E t \in Texts(LitChars, MaxLen) : Start(t, NoFiles)
    \/ \E t \in Texts(CommentChars, MaxComment) : Start(t, NoFiles)
    \/ \E t \in Concats(MaxFrags), files \in Files : Start(t, files)
    \/ \E t \in ConcatsOf(SearchFrags, MaxFrags), files \in SearchFiles :
           Start(t, files)
    \/ \E t \in ConcatsOf(DirectiveFrags, MaxFrags), files \in {NoFiles, DirFiles} :
           Start(t, files)

Next == Get

Spec == Init /\ [][Next]_vars

(***************************************************************************)
(* Vocabulary of the properties.                                           *)
(***************************************************************************)
\* what a consumer compares: a token's kind and spelling
KV(t) == <<t.kind, t.val>>
KVs(toks) == [i \in 1..Len(toks) |-> KV(toks[i])]
Expansions == {i \in 1..Len(log) : log[i].ev = "expand"}
Defines == {i \in 1..Len(log) : log[i].ev = "define"}
Includes == {i \in 1..Len(log) : log[i].ev = "include"}
\* the Lexer main() owns did it, not a Lexer over an included file
ByMain(i) == log[i].depth = 0

\* C1: once NAME is defined with the replacement list t1 ... tn (n >= 1), an
\* occurrence of NAME makes the next n calls of get() return t1, ..., tn in
\* that order, and the call after them returns a token that follows NAME in
\* the source.
C1_ExpansionInOrder ==
    \A i \in Expansions :
        ByMain(i) /\ Len(log[i].body) >= 1 =>
            /\ \A j \in 1..Len(log[i].body) :
                   log[i].n + j <= Len(out) =>
                       KV(out[log[i].n + j]) = KV(log[i].body[j])
            /\ LET k == log[i].n + Len(log[i].body) + 1
               IN (/\ k <= Len(out)
                   /\ ~log[i].tok.g_mac
                   /\ ~out[k].g_mac
                   /\ out[k].g_file = log[i].tok.g_file)
                  => out[k].g_pos > log[i].tok.g_pos

\* C2: expansion is single-pass: no token that came out of a macro's
\* replacement list is itself found in the macro table and expanded.
C2_SinglePass ==
    \A i \in Expansions : ~log[i].tok.g_mac

\* C3: the tokens an #include drained from file f are what get() returns
\* next, in f's order, before anything else.
C3_IncludeOrder ==
    \A i \in Includes :
        ByMain(i) =>
            \A j \in 1..Len(log[i].body) :
                log[i].n + j <= Len(out) =>
                    KV(out[log[i].n + j]) = KV(log[i].body[j])

\* the text with the contents of the included file in place of each
\* #include <f> (the line's own newline stays)
RECURSIVE Inlined(_, _)
Inlined(text, body) ==
    IF Len(text) < Len(Frag_include) - 1 THEN text
    ELSE IF SubSeq(text, 1, Len(Frag_include) - 1)
            = SubSeq(Frag_include, 1, Len(Frag_include) - 1)
    THEN body \o Inlined(SubSeq(text, Len(Frag_include), Len(text)), body)
    ELSE <<Head(text)>> \o Inlined(Tail(text), body)
HasInclude(text) ==
    \E i \in 1..Len(text) :
        /\ i + Len(Frag_include) - 2 <= Len(text)
        /\ SubSeq(text, i, i + Len(Frag_include) - 2)
            = SubSeq(Frag_include, 1, Len(Frag_include) - 1)
\* every token get() returns for the text, read as a file of its own
AllTokens(text) ==
    drain([lx |-> Lexer_new(MainFile, text), mm |-> [x \in {} |-> << >>],
           fs |-> fs, st |-> "ok", log |-> << >>, n |-> 0, depth |-> 0],
          << >>, MaxGets)

\* C4: for a file with #include <f>, get() produces the tokens it produces
\* for the file with f's contents inlined in place of the include line.
C4_InlineEquivalence ==
    (status = "eof" /\ File_f \in DOMAIN fs /\ HasInclude(source)) =>
        LET ref == AllTokens(Inlined(source, fs[File_f].body))
        IN Ok(ref.m) /\ KVs(out) = KVs(ref.v)

\* the latest define of the name before position i of the history, or 0
LastDefine(name, i) ==
    IF {j \in Defines : j < i /\ log[j].name = name} = {} THEN 0
    ELSE CHOOSE j \in Defines :
             /\ j < i /\ log[j].name = name
             /\ \A k \in Defines : (k < i /\ log[k].name = name) => k <= j

\* C5: the macro table is shared with the Lexer of an included file: the
\* table holds, for every name, the replacement list of the latest #define
\* of that name whichever Lexer processed it, and an occurrence of a name
\* in the including file is expanded with that list (the order in which
\* the list then comes out is the subject of C1).
C5_SharedMacroTable ==
    /\ DOMAIN MacroMap = {log[j].name : j \in Defines}
    /\ \A name \in DOMAIN MacroMap :
           MacroMap[name] = log[LastDefine(name, Len(log) + 1)].body
    /\ \A i \in Expansions :
           /\ LastDefine(log[i].name, i) # 0
           /\ log[i].body = log[LastDefine(log[i].name, i)].body

\* a name defined inside the included file is expanded at an occurrence in
\* the including file
C5_Witness ==
    \E i \in Expansions :
        /\ ByMain(i)
        /\ log[i].tok.g_file = MainFile
        /\ ~log[i].tok.g_mac
        /\ LastDefine(log[i].name, i) # 0
        /\ log[LastDefine(log[i].name, i)].depth = 1
        /\ status = "ok"

NoNewline(toks) == \A i \in 1..Len(toks) : toks[i].kind # "Newline"

\* C6: no Newline token is returned by get() (of any Lexer), none is in the
\* token buffer and none is in a replacement list of the macro table.
C6_NewlineInternal ==
    /\ NoNewline(out)
    /\ NoNewline(lexer.buf)
    /\ \A name \in DOMAIN MacroMap : NoNewline(MacroMap[name])
    /\ \A i \in Includes : NoNewline(log[i].body)

\* newlines were scanned, and tokens were returned, buffered and recorded
C6_Witness ==
    /\ lexer.cur_line > 1
    /\ out # << >>
    /\ lexer.buf # << >>
    /\ \E name \in DOMAIN MacroMap : MacroMap[name] # << >>

\* no string or char literal and no comment opener in the text
Plain(text) ==
    /\ \A i \in 1..Len(text) : text[i] \notin {"\"", "'"}
    /\ \A i \in 1..(Len(text) - 1) :
           ~(text[i] = "/" /\ text[i + 1] \in {"/", "*"})
AllPlain == Plain(source) /\ \A p \in DOMAIN fs : Plain(fs[p].body)
\* the text of the file a token was scanned from
TextOf(file) ==
    IF file = MainFile THEN source
    ELSE fs[cpp_try_include([fs |-> fs], file)[1]].body
NewlinesIn(text) == Cardinality({i \in 1..Len(text) : text[i] = "\n"})
LineOf(text, pos) == 1 + NewlinesIn(SubSeq(text, 1, pos - 1))

\* C7: without comments and literals, every token get() returns is spelled
\* in its file at the offset it was scanned from, carries line = 1 + the
\* number of newlines before that offset, and none is a token for a
\* backslash or a newline.
C7_LineTracking ==
    AllPlain =>
        \A i \in 1..Len(out) :
            /\ out[i].g_pos \in 1..Len(TextOf(out[i].g_file))
            /\ SubSeq(TextOf(out[i].g_file), out[i].g_pos,
                      out[i].g_pos + Len(out[i].val) - 1) = out[i].val
            /\ out[i].line = LineOf(TextOf(out[i].g_file), out[i].g_pos)
            /\ out[i].kind # "Newline"
            /\ \A k \in 1..Len(out[i].val) : out[i].val[k] \notin {"\\", "\n"}

\* offset of the last character of a token that is not a literal
EndOf(t) == t.g_pos + Len(t.val) - 1
\* the offsets >= from at which "*/" starts in the source
Closers(from) ==
    {e \in from..(Len(source) - 1) : source[e] = "*" /\ source[e + 1] = "/"}
Min(S) == CHOOSE x \in S : \A y \in S : x <= y

\* C8: when a closed block comment starts right after a returned token, the
\* next token returned starts after the first "*/", and when it starts
\* right there its line is the earlier token's line plus the number of
\* newlines inside the comment.
C8_CommentElision ==
    \A i \in 1..(Len(out) - 1) :
        LET a == out[i]
            b == out[i + 1]
            s == EndOf(a) + 1
        IN (/\ a.g_file = MainFile /\ b.g_file = MainFile
            /\ ~a.g_mac /\ ~b.g_mac
            /\ a.kind \notin {"String", "Char"}
            /\ s + 1 <= Len(source)
            /\ source[s] = "/" /\ source[s + 1] = "*"
            /\ Closers(s + 2) # {})
           => /\ b.g_pos >= Min(Closers(s + 2)) + 2
              /\ b.g_pos = Min(Closers(s + 2)) + 2 =>
                     b.line = a.line
                              + NewlinesIn(SubSeq(source, s, Min(Closers(s + 2))))

\* the last offset of the run of characters of the class that starts at i
RunEnd(text, i, class) ==
    CHOOSE j \in (i - 1)..Len(text) :
        /\ \A k \in i..j : text[k] \in class
        /\ j = Len(text) \/ text[j + 1] \notin class
Is(text, k, ch) == k <= Len(text) /\ text[k] = ch
\* the length of the longest operator spelling that starts at i
SymbolLen(text, i) ==
    IF text[i] \in AssignOps THEN (IF Is(text, i + 1, "=") THEN 2 ELSE 1)
    ELSE IF text[i] \in DoubleOps
    THEN (IF Is(text, i + 1, text[i])
          THEN (IF Is(text, i + 2, "=") THEN 3 ELSE 2)
          ELSE IF Is(text, i + 1, "=") THEN 2 ELSE 1)
    ELSE IF text[i] = "."
    THEN (IF Is(text, i + 1, ".") /\ Is(text, i + 2, ".") THEN 3 ELSE 1)
    ELSE 1
\* the left-to-right maximal-munch classification of a text from offset i
RECURSIVE Munch(_, _)
Munch(text, i) ==
    IF i > Len(text) THEN << >>
    ELSE IF text[i] \in IdentStart
    THEN <<<<"Identifier", SubSeq(text, i, RunEnd(text, i, IdentCont))>>>>
         \o Munch(text, RunEnd(text, i, IdentCont) + 1)
    ELSE IF text[i] \in Digit
    THEN <<<<number_kind(SubSeq(text, i, RunEnd(text, i, NumCont))),
             SubSeq(text, i, RunEnd(text, i, NumCont))>>>>
         \o Munch(text, RunEnd(text, i, NumCont) + 1)
    ELSE IF text[i] \in {" ", "\t", "\n", "\\"} THEN Munch(text, i + 1)
    ELSE <<<<"Symbol", SubSeq(text, i, i + SymbolLen(text, i) - 1)>>>>
         \o Munch(text, i + SymbolLen(text, i))
IsPrefix(s, t) == Len(s) <= Len(t) /\ s = SubSeq(t, 1, Len(s))
Scannable(text) == Plain(text) /\ \A i \in 1..Len(text) : text[i] # "#"

\* C9: for an input without directives, comments and literals, get() never
\* fails, what it has returned is a prefix of the maximal-munch
\* classification of the input, and at end-of-input it is all of it.
C9_MaximalMunch ==
    Scannable(source) =>
        /\ status \in {"ok", "eof"}
        /\ IsPrefix(KVs(out), Munch(source, 1))
        /\ status = "eof" => KVs(out) = Munch(source, 1)

\* the number of backslashes that end the text s[1..k]
RECURSIVE BackslashesBefore(_, _)
BackslashesBefore(s, k) ==
    IF k >= 1 /\ s[k] = "\\" THEN 1 + BackslashesBefore(s, k - 1) ELSE 0
Escaped(s, k) == BackslashesBefore(s, k - 1) % 2 = 1

\* C10: a String or Char token is the text between its opening quote and
\* the first unescaped closing quote: every quote inside it is escaped and
\* the quote that ended it is not.
C10_EscapedQuote ==
    \A i \in 1..Len(out) :
        (/\ out[i].kind \in {"String", "Char"}
         /\ out[i].g_file = MainFile
         /\ ~out[i].g_mac)
        => LET q == source[out[i].g_pos]
               close == out[i].g_pos + Len(out[i].val) + 1
           IN /\ out[i].val = SubSeq(source, out[i].g_pos + 1, close - 1)
              /\ source[close] = q
              /\ ~Escaped(source, close)
              /\ \A k \in (out[i].g_pos + 1)..(close - 1) :
                     source[k] = q => Escaped(source, k)

\* the offset at which the construct opens that the text ends inside of (a
\* string literal, a char literal or a block comment), or 0 when the text
\* ends outside of them; a backslash inside a literal escapes the next
\* character
RECURSIVE Unterminated(_, _, _, _)
Unterminated(text, i, mode, open) ==
    IF i > Len(text)
    THEN (IF mode \in {"string", "char", "block"} THEN open ELSE 0)
    ELSE CASE mode = "code" ->
                IF text[i] = "\"" THEN Unterminated(text, i + 1, "string", i)
                ELSE IF text[i] = "'" THEN Unterminated(text, i + 1, "char", i)
                ELSE IF text[i] = "/" /\ Is(text, i + 1, "*")
                THEN Unterminated(text, i + 2, "block", i)
                ELSE IF text[i] = "/" /\ Is(text, i + 1, "/")
                THEN Unterminated(text, i + 2, "line", i)
                ELSE Unterminated(text, i + 1, "code", 0)
           [] mode \in {"string", "char"} ->
                IF text[i] = "\\" THEN Unterminated(text, i + 2, mode, open)
                ELSE IF text[i] = (IF mode = "string" THEN "\"" ELSE "'")
                THEN Unterminated(text, i + 1, "code", 0)
                ELSE Unterminated(text, i + 1, mode, open)
           [] mode = "block" ->
                IF text[i] = "*" /\ Is(text, i + 1, "/")
                THEN Unterminated(text, i + 2, "code", 0)
                ELSE Unterminated(text, i + 1, "block", open)
           [] OTHER ->
                IF text[i] = "\n" THEN Unterminated(text, i, "code", 0)
                ELSE Unterminated(text, i + 1, "line", open)
EndsInside(text) == Unterminated(text, 1, "code", 0)

\* C11: when the input ends inside an opened string literal, char literal
\* or block comment, get() never reports end-of-input, never hangs, and
\* returns no token that starts at or after the opening of that construct.
C11_UnterminatedFatal ==
    (EndsInside(source) # 0 /\ \A i \in 1..Len(source) : source[i] # "#") =>
        /\ status \notin {"eof", "hang"}
        /\ \A i \in 1..Len(out) :
               out[i].g_file = MainFile => out[i].g_pos < EndsInside(source)

Probes == {i \in 1..Len(log) : log[i].ev = "probe"}

\* C12: an #include whose next token is not "<" collects no header name, and
\* for such an include no path is probed and the run is not ended: every
\* probe of the file system is for a collected name, and the run ends as
\* "not found" only after the probe of a collected name.
C12_QuotedIncludeSkipped ==
    /\ \A i \in Probes : log[i].name # << >>
    /\ status = "exit: not found" =>
           /\ log # << >>
           /\ log[Len(log)].ev = "probe"
           /\ log[Len(log)].name # << >>

\* the prefixes, in the order in which a header is looked for
SearchOrder ==
    << <<".", "/", "i", "n", "c", "l", "u", "d", "e", "/">>,
       <<"/", "i", "n", "c", "l", "u", "d", "e", "/">>,
       <<"/", "u", "s", "r", "/", "i", "n", "c", "l", "u", "d", "e", "/">>,
       <<"/", "u", "s", "r", "/", "i", "n", "c", "l", "u", "d", "e", "/", "l", "i", "n", "u", "x", "/">>,
       <<"/", "u", "s", "r", "/", "i", "n", "c", "l", "u", "d", "e", "/", "x", "8", "6", "_", "6", "4", "-", "l", "i", "n", "u", "x", "-", "g", "n", "u", "/">>,
       <<>> >>
Candidates(name) ==
    {k \in 1..Len(SearchOrder) : (SearchOrder[k] \o name) \in DOMAIN fs}
FirstCandidate(name) == SearchOrder[Min(Candidates(name))] \o name
\* C13: for #include <name> the path chosen is the first of the prefixes,
\* in the order of SearchOrder, under which name exists, and the tokens
\* drained are spelled in the file at that path; when no candidate exists
\* the run ends there as "not found" and the consumer gets no further token.
C13_HeaderSearch ==
    /\ \A i \in Probes :
           log[i].name # << >> =>
               IF Candidates(log[i].name) = {}
               THEN /\ log[i].body = None
                    /\ i = Len(log)
                    /\ status = "exit: not found"
               ELSE log[i].body = Some(FirstCandidate(log[i].name))
    /\ \A j \in Includes :
           log[j].name # << >> =>
               \A k \in 1..Len(log[j].body) :
                   ~log[j].body[k].g_mac =>
                       SubSeq(fs[FirstCandidate(log[j].name)].body,
                              log[j].body[k].g_pos,
                              log[j].body[k].g_pos + Len(log[j].body[k].val) - 1)
                           = log[j].body[k].val
    /\ status = "exit: not found" => ~ENABLED Next

\* a header that exists under several prefixes, not under the first one,
\* was included and its token returned
C13_Witness ==
    \E j \in Includes :
        /\ ByMain(j)
        /\ Cardinality(Candidates(log[j].name)) >= 2
        /\ 1 \notin Candidates(log[j].name)
        /\ log[j].body # << >>
        /\ Len(out) > log[j].n
        /\ status = "ok"
\* no candidate exists and the run has ended as "not found"
C13_WitnessNotFound ==
    /\ status = "exit: not found"
    /\ log # << >>
    /\ log[Len(log)].name # << >>
    /\ Candidates(log[Len(log)].name) = {}

\* the offset of the first newline of the text at or after offset s, or
\* Len(text) + 1 when the text has none there
LineEnd(text, s) ==
    Min({e \in s..Len(text) : text[e] = "\n"} \cup {Len(text) + 1})

\* C14: #define NAME records as NAME's replacement list exactly the tokens
\* spelled between NAME and the next newline of NAME's line, and the table
\* holds for NAME the list of the latest #define of it.
C14_DefineBodyOneLine ==
    /\ \A i \in Defines :
           ~log[i].tok.g_mac =>
               /\ KVs(log[i].body)
                      = Munch(SubSeq(TextOf(log[i].tok.g_file),
                                     EndOf(log[i].tok) + 1,
                                     LineEnd(TextOf(log[i].tok.g_file),
                                             EndOf(log[i].tok) + 1) - 1), 1)
               /\ \A k \in 1..Len(log[i].body) :
                      /\ log[i].body[k].g_file = log[i].tok.g_file
                      /\ log[i].body[k].g_pos > EndOf(log[i].tok)
                      /\ log[i].body[k].g_pos
                             < LineEnd(TextOf(log[i].tok.g_file),
                                       EndOf(log[i].tok) + 1)
    /\ \A name \in DOMAIN MacroMap :
           /\ LastDefine(name, Len(log) + 1) # 0
           /\ MacroMap[name] = log[LastDefine(name, Len(log) + 1)].body

\* C15: #define ends the run as "unsupported" exactly when "(" directly
\* follows the macro name: when the run has ended so, the "(" just consumed
\* is preceded in the source by a character of the name, and no macro is
\* recorded whose name is directly followed by "(".
C15_FunctionLikeOnly ==
    /\ (status = "exit: unsupported" /\ lexer.buf = << >>) =>
           /\ CurPos(lexer) - 1 \in 2..Len(source)
           /\ source[CurPos(lexer) - 1] = "("
           /\ source[CurPos(lexer) - 2] \in IdentCont
    /\ \A i \in Defines :
           ~log[i].tok.g_mac =>
               ~Is(TextOf(log[i].tok.g_file), EndOf(log[i].tok) + 1, "(")

\* C16: only Identifier tokens are looked up in the macro table: every
\* expansion is triggered by an Identifier token.
C16_IdentifierLookupOnly ==
    \A i \in Expansions : log[i].tok.kind = "Identifier"

\* no #include directive is spelled in the text
NoInclude(text) ==
    \A i \in 1..Len(text) :
        ~(/\ text[i] = "#"
          /\ i + Len(Directive_include) <= Len(text)
          /\ SubSeq(text, i + 1, i + Len(Directive_include)) = Directive_include)

\* C17: for a source without #include, a consumer that keeps calling get()
\* receives end-of-input after finitely many calls.  get() is a function
\* of the Lexer and the macro table, so the calls can only come to an end
\* if a call that returns a token never leaves both of them as they were:
\* every call that returns a token changes the Lexer or the macro table.
C17_GetTerminates ==
    [][(NoInclude(source) /\ status = "ok" /\ status' = "ok")
          => (lexer' # lexer \/ MacroMap' # MacroMap)]_vars

\* C18: a token get() returns from the text of a file (one without
\* backslashes) has its leading-space flag set if and only if the
\* character directly before its first character is a space or a tab.
C18_LeadingSpace ==
    \A i \in 1..Len(out) :
        (/\ ~out[i].g_mac
         /\ \A k \in 1..Len(TextOf(out[i].g_file)) :
                TextOf(out[i].g_file)[k] # "\\") =>
            (out[i].space <=>
                 /\ out[i].g_pos > 1
                 /\ TextOf(out[i].g_file)[out[i].g_pos - 1] \in {" ", "\t"})

\* the expansions whose read_token() result is the token get() returned to
\* the consumer: in the main Lexer, the last expansion of its call of get()
Returning ==
    {i \in Expansions :
        /\ ByMain(i)
        /\ log[i].n < Len(out)
        /\ \A j \in Expansions : (ByMain(j) /\ log[j].n = log[i].n) => j <= i}

\* C19: unget(t) puts t at the front of the pending tokens: expand() calls
\* unget() for the tokens of the replacement list from the last one to the
\* first and then read_token(), so the token it returns is the one unget()
\* was called with last, the first token of the list.
C19_UngetFront ==
    \A i \in Returning :
        Len(log[i].body) >= 1 =>
            /\ KV(out[log[i].n + 1]) = KV(log[i].body[1])
            /\ out[log[i].n + 1].g_pos = log[i].body[1].g_pos
            /\ out[log[i].n + 1].g_mac

\* C20: the character pushback queue of the Lexer holds at most two
\* characters, and the queue followed by the unread remainder of the source
\* is the suffix of the source of that length.
C20_PushbackSuffix ==
    /\ Len(lexer.peek_buf) <= 2
    /\ Len(lexer.peek_buf) + Len(lexer.peek) <= Len(source)
    /\ lexer.peek_buf \o lexer.peek
           = SubSeq(source,
                    Len(source) - Len(lexer.peek_buf) - Len(lexer.peek) + 1,
                    Len(source))

\* two characters are queued after a lookahead that did not match, with a
\* token returned and input left to read
C20_Witness ==
    /\ Len(lexer.peek_buf) = 2
    /\ lexer.peek # << >>
    /\ out # << >>
    /\ status = "ok"

=============================================================================
